---- MODULE Spec2Model ----
(***************************************************************************)
(* Model of the authenticated-fetch / token-refresh logic of               *)
(* src/js/dashboard_admin.js (lines 1-252 and 1330-1343).                  *)
(*                                                                         *)
(* Execution model: the browser event loop.  A macrotask (a network        *)
(* response arriving, a timer tick, application code calling authFetch or  *)
(* logout) runs only when the microtask queue mq is empty; promise         *)
(* continuations are microtasks and run in FIFO order before the next      *)
(* macrotask.  Every action is one run-to-completion stretch of code       *)
(* between two suspension points (await).                                  *)
(*                                                                         *)
(* window.location.href assignments are recorded in location / navLog and  *)
(* the script keeps running, as it does until the page is unloaded.        *)
(***************************************************************************)
EXTENDS Integers, Sequences, FiniteSets, Bags, TLC

\* ------------------------------------------------------------------ bounds
NumCallers == 2      \* concurrent authFetch invocations
MaxTicks   == 2      \* auto-refresh timer ticks

\* --------------------------------------------------------------- constants
BufferTime   == 300000   \* 5 * 60 * 1000 ms
TickInterval == 60000    \* 60 * 1000 ms

Null == "null"           \* JS null / undefined / absent storage item

Callers   == 1..NumCallers
\* every run of the setInterval callback of setupTokenAutoRefresh is a logical
\* caller of its own (a callback still awaiting does not stop the next one)
TickProcs == {0 - k : k \in 0..(MaxTicks - 1)}
Procs     == Callers \cup TickProcs

LoginPage == "login.html"
IndexPage == "index.html"
AdminPage == "dashboard_admin.html"
DashboardPage == "dashboard.html"

\* Access tokens that occur: T1 is the one stored at login; the refresh
\* endpoint mints T2 or a value that is not a three-segment JWT.
InitTokens    == {"T1"}
RefreshTokens == {"T2", "opaque"}

\* payload.exp (seconds since epoch) of a token; -1 when the middle segment
\* cannot be decoded (JSON.parse(atob(...)) throws).
ExpOf(t) ==
  CASE t = "T1" -> 360
    [] t = "T2" -> 900
    [] OTHER    -> -1

\* Statuses the backend answers with.
Statuses == {200, 401, 500}

IsOk(status) == status >= 200 /\ status <= 299

\* What application code passes to authFetch(url, options).
NoHeaders == [n \in {} |-> ""]
CallArgs ==
  { [url |-> "/orders/get",    options |-> [method |-> "GET",  headers |-> NoHeaders]],
    [url |-> "/needs/add",     options |-> [method |-> "POST", headers |-> [n \in {"Authorization", "X-Req"} |-> "custom"]]] }
NoArgs == [url |-> Null, options |-> [method |-> Null, headers |-> NoHeaders]]

\* `Bearer ${token}`
Bearer(token) == <<"Bearer", token>>

\* { ...a, ...b } : keys of b win
Spread(a, b) == [n \in (DOMAIN a) \cup (DOMAIN b) |-> IF n \in DOMAIN b THEN b[n] ELSE a[n]]

NoResp == [status |-> 0, n |-> 0]
NoErr  == [msg |-> "", att |-> 0]
Pending == [kind |-> "pending", resp |-> NoResp, err |-> NoErr]
NoRt    == [kind |-> "none", val |-> Null, err |-> NoErr]

\* Bodies the refresh endpoint can send with a 2xx status: not JSON at all
\* (response.json() rejects), JSON without access_token, with an empty one,
\* or with a fresh token.
RefreshBodies ==
  { [json |-> FALSE, access_token |-> Null],
    [json |-> TRUE,  access_token |-> Null],
    [json |-> TRUE,  access_token |-> ""] }
  \cup { [json |-> TRUE, access_token |-> t] : t \in RefreshTokens }

\* the body of a refresh response that has not been read (yet)
NoBody == [json |-> FALSE, access_token |-> "unread"]

\* a test for a missing field only (data.access_token === undefined)
Falsy_MissingOnly(v) == v = Null

\* !data.access_token
Falsy(v) == v = Null \/ v = ""

VARIABLES
  localTok,     \* localStorage 'token'
  sessionTok,   \* sessionStorage 'token'
  role,         \* localStorage 'role'
  location,     \* window.location.href
  isRefreshing, \* line 5
  failedQueue,  \* line 6: sequence of waiters [p, att]
  pc,           \* position of every logical caller
  mq,           \* microtask queue (promise reaction jobs)
  args,         \* authFetch arguments of each caller
  headers,      \* authFetch local `headers`
  sent,         \* requests each caller has issued to its target endpoint
  recv,         \* responses each caller has received from its target endpoint
  result,       \* what each authFetch invocation completed with
  rt,           \* what refreshToken() delivered to each process
  attempts,     \* every refresh network call started so far: who started it, what
                \* the endpoint answered (status 0: no response) and its outcome
  enqLog,       \* history: waiters pushed onto failedQueue
  settleLog,    \* history: resolve/reject calls made by processQueue
  navLog,       \* history: bag of the assignments to window.location.href, with their cause
  logoutPc,     \* position of logout()
  now,          \* Date.now()
  ticks,        \* timer callbacks run so far
  api,          \* apiRequest wrapped around each authFetch invocation
  probe,        \* the last direct call of a token store function and its result
  chk           \* the checkAuthentication call made when the page has loaded

vars == <<localTok, sessionTok, role, location, isRefreshing, failedQueue, pc, mq,
          args, headers, sent, recv, result, rt, attempts, enqLog, settleLog, navLog,
          logoutPc, now, ticks, api, probe, chk>>

storage == <<localTok, sessionTok, role>>
hist    == <<enqLog, settleLog>>
ext     == <<api, probe, chk>>

\* ------------------------------------------------------------- token store
\* lines 21-23: getItem(..) || getItem(..); an empty string is falsy
TokenOf(l, s) == IF ~Falsy(l) THEN l ELSE s
getToken == TokenOf(localTok, sessionTok)

\* setToken storing nothing
SetTokenResult_NoWrite(l, s, token) == <<l, s>>

\* setToken writing to sessionStorage whatever localStorage holds
SetTokenResult_AlwaysSession(l, s, token) == <<l, token>>

\* setToken writing to localStorage whatever it holds
SetTokenResult_AlwaysLocal(l, s, token) == <<token, s>>

\* lines 26-33: the pair <<localStorage token, sessionStorage token>> after setToken
SetTokenResult(l, s, token) == IF ~Falsy(l) THEN <<token, s>> ELSE <<l, token>>

\* the scope getToken reads the token from
ScopeOf(l, s) == IF ~Falsy(l) THEN "local" ELSE IF ~Falsy(s) THEN "session" ELSE "none"

\* lines 36-41
clearAuthData ==
  /\ localTok' = Null
  /\ sessionTok' = Null
  /\ role' = Null

\* lines 44-47
redirectToLogin(cause, att) ==
  /\ clearAuthData
  /\ location' = LoginPage
  /\ navLog' = navLog (+) SetToBag({[to |-> LoginPage, by |-> cause, att |-> att]})

\* ----------------------------------------------------- refresh coordinator
\* the refresh network call a process started and that is not finished yet
AttOf(p) == CHOOSE i \in 1..Len(attempts) : attempts[i].by = p /\ attempts[i].phase # "done"

\* processes whose POST /auth/refresh has been sent and whose response (status
\* or body) has not been handled yet
RefreshInFlight == {p \in Procs : pc[p] \in {"rfetch", "rjson"}}

\* lines 9-18, the forEach: one resolve/reject call per queued waiter, in order
ProcessQueueSettles(by, res) ==
  [i \in 1..Len(failedQueue) |->
     [p |-> failedQueue[i].p, att |-> failedQueue[i].att, by |-> by, res |-> res]]

\* processQueue called without its token argument (token = null by default)
ProcessQueueJobs_DefaultToken(res) ==
  [i \in 1..Len(failedQueue) |->
     [kind |-> "relay", p |-> failedQueue[i].p,
      res |-> IF res.kind = "token" THEN [res EXCEPT !.val = Null] ELSE res]]

\* processQueue emptying the queue without settling its entries
ProcessQueueJobs_Dropped(res) == <<>>

\* processQueue walking the queue from its newest entry to its oldest
ProcessQueueJobs_Reversed(res) ==
  [i \in 1..Len(failedQueue) |->
     [kind |-> "relay", p |-> failedQueue[Len(failedQueue) + 1 - i].p, res |-> res]]

\* processQueue resolving the waiters with its default token on a failure
ProcessQueueJobs_ResolveOnError(res) ==
  [i \in 1..Len(failedQueue) |->
     [kind |-> "relay", p |-> failedQueue[i].p,
      res |-> IF res.kind = "error" THEN [kind |-> "token", val |-> Null, err |-> NoErr] ELSE res]]

\* the promise reaction jobs those resolve/reject calls enqueue: the waiter's
\* `new Promise` (line 52) is relayed to the promise of its async refreshToken
\* call, which then resumes the awaiting caller
ProcessQueueJobs(res) ==
  [i \in 1..Len(failedQueue) |-> [kind |-> "relay", p |-> failedQueue[i].p, res |-> res]]

\* processQueue without line 17
processQueue_KeepQueue(by, res) ==
  /\ settleLog' = settleLog \o ProcessQueueSettles(by, res)
  /\ failedQueue' = failedQueue

\* lines 9-18
processQueue(by, res) ==
  /\ settleLog' = settleLog \o ProcessQueueSettles(by, res)
  /\ failedQueue' = <<>>

\* the reaction job that resumes the caller awaiting the initiator's own
\* refreshToken() promise (settled by `return` / `throw`, lines 94 and 105)
OwnJob(p, res) == <<[kind |-> "resume", p |-> p, res |-> res]>>

\* refreshToken with line 57 left out
RefreshToken_FlagNotSet(p) ==
  IF isRefreshing
  THEN /\ failedQueue' = Append(failedQueue, [p |-> p, att |-> Len(attempts)])
       /\ enqLog' = Append(enqLog, [p |-> p, att |-> Len(attempts)])
       /\ pc' = [pc EXCEPT ![p] = "waiting"]
       /\ UNCHANGED <<isRefreshing, attempts>>
  ELSE /\ isRefreshing' = isRefreshing
       /\ attempts' = Append(attempts, [by |-> p, phase |-> "fetch", status |-> 0,
                                         body |-> NoBody, res |-> NoRt,
                                         scope |-> ScopeOf(localTok, sessionTok)])
       /\ pc' = [pc EXCEPT ![p] = "rfetch"]
       /\ UNCHANGED <<failedQueue, enqLog>>

\* lines 50-57: the synchronous head of refreshToken
RefreshToken(p) ==
  IF isRefreshing
  THEN /\ failedQueue' = Append(failedQueue, [p |-> p, att |-> Len(attempts)])
       /\ enqLog' = Append(enqLog, [p |-> p, att |-> Len(attempts)])
       /\ pc' = [pc EXCEPT ![p] = "waiting"]
       /\ UNCHANGED <<isRefreshing, attempts>>
  ELSE /\ isRefreshing' = TRUE
       /\ attempts' = Append(attempts, [by |-> p, phase |-> "fetch", status |-> 0,
                                         body |-> NoBody, res |-> NoRt,
                                         scope |-> ScopeOf(localTok, sessionTok)])
       /\ pc' = [pc EXCEPT ![p] = "rfetch"]
       /\ UNCHANGED <<failedQueue, enqLog>>

\* refreshToken without its finally block
Finally_Skipped == isRefreshing' = isRefreshing

\* lines 106-108
Finally == isRefreshing' = FALSE

\* refreshToken's catch without its processQueue call (line 103)
RefreshFailed_NoDrain(p, msg, status, body) ==
  LET a   == AttOf(p)
      res == [kind |-> "error", val |-> Null, err |-> [msg |-> msg, att |-> a]]
  IN /\ IF msg = "REFRESH_TOKEN_EXPIRED"
        THEN redirectToLogin("refreshToken", a)
        ELSE UNCHANGED <<storage, location, navLog>>
     /\ UNCHANGED <<settleLog, failedQueue>>
     /\ mq' = mq \o OwnJob(p, res)
     /\ Finally
     /\ attempts' = [attempts EXCEPT ![a] = [by |-> p, phase |-> "done", status |-> status,
                                             body |-> body, res |-> res,
                                             scope |-> "none"]]
     /\ pc' = [pc EXCEPT ![p] = "settled"]
     /\ UNCHANGED <<enqLog>>

\* lines 95-108: catch, then finally; the initiator's own promise is rejected
\* after the waiters' ones
RefreshFailed(p, msg, status, body) ==
  LET a   == AttOf(p)
      res == [kind |-> "error", val |-> Null, err |-> [msg |-> msg, att |-> a]]
  IN /\ IF msg = "REFRESH_TOKEN_EXPIRED"
        THEN redirectToLogin("refreshToken", a)
        ELSE UNCHANGED <<storage, location, navLog>>
     /\ processQueue(a, res)
     /\ mq' = mq \o ProcessQueueJobs(res) \o OwnJob(p, res)
     /\ Finally
     /\ attempts' = [attempts EXCEPT ![a] = [by |-> p, phase |-> "done", status |-> status,
                                             body |-> body, res |-> res,
                                             scope |-> "none"]]
     /\ pc' = [pc EXCEPT ![p] = "settled"]
     /\ UNCHANGED <<enqLog>>

\* lines 87-94, then finally
RefreshSucceeded(p, token, status, body) ==
  LET a   == AttOf(p)
      res == [kind |-> "token", val |-> token, err |-> NoErr]
      st  == SetTokenResult(localTok, sessionTok, token)
  IN /\ localTok' = st[1]
     /\ sessionTok' = st[2]
     /\ UNCHANGED <<role, location, navLog>>
     /\ processQueue(a, res)
     /\ mq' = mq \o ProcessQueueJobs(res) \o OwnJob(p, res)
     /\ Finally
     /\ attempts' = [attempts EXCEPT ![a] = [by |-> p, phase |-> "done", status |-> status,
                                             body |-> body, res |-> res,
                                             scope |-> "none"]]
     /\ pc' = [pc EXCEPT ![p] = "settled"]
     /\ UNCHANGED <<enqLog>>

\* refreshToken without the status === 401 branch (lines 73-76)
RefreshErrorMsg_NoExpiry(status) == "Refresh failed: " \o ToString(status)

\* lines 71-78: message of the error thrown for a non-2xx refresh response
RefreshErrorMsg(status) ==
  IF status = 401 THEN "REFRESH_TOKEN_EXPIRED" ELSE "Refresh failed: " \o ToString(status)

\* refreshToken clearing isRefreshing as soon as the endpoint has answered,
\* before the body is read
RefreshResponse_EarlyClear(p, status) ==
  /\ mq = <<>>
  /\ pc[p] = "rfetch"
  /\ IF IsOk(status)
     THEN /\ pc' = [pc EXCEPT ![p] = "rjson"]
          /\ attempts' = [attempts EXCEPT ![AttOf(p)].phase = "json", ![AttOf(p)].status = status]
          /\ isRefreshing' = FALSE
          /\ UNCHANGED <<storage, location, navLog, failedQueue, mq, hist>>
     ELSE RefreshFailed(p, RefreshErrorMsg(status), status, NoBody)
  /\ UNCHANGED <<args, headers, sent, recv, result, rt, logoutPc, now, ticks>>
  /\ UNCHANGED ext

\* lines 61-78: the refresh endpoint answered with a status
RefreshResponse(p, status) ==
  /\ mq = <<>>
  /\ pc[p] = "rfetch"
  /\ IF IsOk(status)
     THEN /\ pc' = [pc EXCEPT ![p] = "rjson"]
          /\ attempts' = [attempts EXCEPT ![AttOf(p)].phase = "json", ![AttOf(p)].status = status]
          /\ UNCHANGED <<storage, location, navLog, isRefreshing, failedQueue, mq, hist>>
     ELSE RefreshFailed(p, RefreshErrorMsg(status), status, NoBody)
  /\ UNCHANGED <<args, headers, sent, recv, result, rt, logoutPc, now, ticks>>
  /\ UNCHANGED ext

\* line 61: fetch itself rejected (network failure)
RefreshNetError(p) ==
  /\ mq = <<>>
  /\ pc[p] = "rfetch"
  /\ RefreshFailed(p, "Failed to fetch", 0, NoBody)
  /\ UNCHANGED <<args, headers, sent, recv, result, rt, logoutPc, now, ticks>>
  /\ UNCHANGED ext

\* lines 80-94: the body of a 2xx refresh response has been read
RefreshBody(p, data) ==
  /\ mq = <<>>
  /\ pc[p] = "rjson"
  /\ LET status == attempts[AttOf(p)].status IN
     IF ~data.json
     THEN RefreshFailed(p, "Unexpected token in JSON", status, data)
     ELSE IF Falsy(data.access_token)
          THEN RefreshFailed(p, "No access token in response", status, data)
          ELSE RefreshSucceeded(p, data.access_token, status, data)
  /\ UNCHANGED <<args, headers, sent, recv, result, rt, logoutPc, now, ticks>>
  /\ UNCHANGED ext

\* ------------------------------------------------------------------ authFetch
\* lines 122-126
BuildHeaders(token, options) ==
  Spread([n \in {"Content-Type", "Authorization"} |->
            IF n = "Authorization" THEN Bearer(token) ELSE <<"application/json">>],
         [n \in DOMAIN options.headers |-> <<options.headers[n]>>])

\* lines 130-134 and 147-151: the init object handed to fetch
Request(a, h) == [url |-> a.url, options |-> a.options, headers |-> h, credentials |-> "include"]

\* the retry sent with the headers of the first attempt
RetryHeaders_Stale(h, newToken) == h

\* line 146
RetryHeaders(h, newToken) == [h EXCEPT !["Authorization"] = Bearer(newToken)]

\* authFetch without its token check
HasNoToken_Never == FALSE

\* lines 113-115: const token = getToken(); if (!token)
HasNoToken == Falsy(getToken)

\* lines 112-134
AuthFetchStart(c, a) ==
  /\ mq = <<>>
  /\ pc[c] = "idle"
  /\ \A d \in Callers : d < c => pc[d] # "idle"   \* invocations are numbered in call order
  /\ IF HasNoToken
     THEN /\ redirectToLogin("noToken", 0)
          /\ result' = [result EXCEPT ![c] = [kind |-> "undefined", resp |-> NoResp, err |-> NoErr]]
          /\ pc' = [pc EXCEPT ![c] = "done"]
          /\ args' = [args EXCEPT ![c] = a]
          /\ UNCHANGED <<headers, sent>>
     ELSE /\ args' = [args EXCEPT ![c] = a]
          /\ headers' = [headers EXCEPT ![c] = BuildHeaders(getToken, a.options)]
          /\ sent' = [sent EXCEPT ![c] = <<Request(a, headers'[c])>>]
          /\ pc' = [pc EXCEPT ![c] = "fetch1"]
          /\ UNCHANGED <<storage, location, navLog, result>>
  /\ UNCHANGED <<isRefreshing, failedQueue, mq, recv, rt, attempts, hist, logoutPc, now, ticks>>

\* authFetch called by application code directly (lines 506, 558)
AuthFetchCall(c, a) ==
  /\ AuthFetchStart(c, a)
  /\ UNCHANGED ext

\* authFetch refreshing on every failed first response (!response.ok)
IsUnauthorized_NotOk(status) == ~IsOk(status)

\* line 137: response.status === 401
IsUnauthorized(status) == status = 401

\* lines 136-142 and 161: the first response arrived
FirstResponse(c, status) ==
  /\ mq = <<>>
  /\ pc[c] = "fetch1"
  /\ recv' = [recv EXCEPT ![c] = Append(@, [status |-> status, n |-> 1])]
  /\ IF IsUnauthorized(status)
     THEN /\ RefreshToken(c)
          /\ UNCHANGED result
     ELSE /\ result' = [result EXCEPT ![c] = [kind |-> "response", resp |-> recv'[c][1], err |-> NoErr]]
          /\ pc' = [pc EXCEPT ![c] = "done"]
          /\ UNCHANGED <<isRefreshing, failedQueue, attempts, enqLog>>
  /\ UNCHANGED <<storage, location, navLog, mq, args, headers, sent, rt, settleLog, logoutPc, now, ticks>>
  /\ UNCHANGED ext

\* lines 130 and 162-165: the first fetch rejected
FirstNetError(c) ==
  /\ mq = <<>>
  /\ pc[c] = "fetch1"
  /\ result' = [result EXCEPT ![c] = [kind |-> "error", resp |-> NoResp, err |-> [msg |-> "Failed to fetch", att |-> 0]]]
  /\ pc' = [pc EXCEPT ![c] = "done"]
  /\ UNCHANGED <<storage, location, navLog, isRefreshing, failedQueue, mq, args, headers, sent, recv,
                 rt, attempts, hist, logoutPc, now, ticks>>
  /\ UNCHANGED ext

\* lines 142-158: authFetch resumes after `await refreshToken()`
AuthFetchResume(c, res) ==
  /\ rt' = [rt EXCEPT ![c] = res]
  /\ IF res.kind = "token"
     THEN /\ headers' = [headers EXCEPT ![c] = RetryHeaders(@, res.val)]
          /\ sent' = [sent EXCEPT ![c] = Append(@, Request(args[c], headers'[c]))]
          /\ pc' = [pc EXCEPT ![c] = "fetch2"]
          /\ UNCHANGED <<storage, location, navLog, result>>
     ELSE /\ redirectToLogin("authFetch", res.err.att)
          /\ result' = [result EXCEPT ![c] = [kind |-> "error", resp |-> NoResp, err |-> res.err]]
          /\ pc' = [pc EXCEPT ![c] = "done"]
          /\ UNCHANGED <<headers, sent>>

\* authFetch treating a 401 on the retried request like the first one
RetryResponse_Loop(c, status) ==
  /\ mq = <<>>
  /\ pc[c] = "fetch2"
  /\ recv' = [recv EXCEPT ![c] = Append(@, [status |-> status, n |-> 2])]
  /\ IF status = 401
     THEN /\ RefreshToken(c)
          /\ UNCHANGED result
     ELSE /\ result' = [result EXCEPT ![c] = [kind |-> "response", resp |-> recv'[c][2], err |-> NoErr]]
          /\ pc' = [pc EXCEPT ![c] = "done"]
          /\ UNCHANGED <<isRefreshing, failedQueue, attempts, enqLog>>
  /\ UNCHANGED <<storage, location, navLog, mq, args, headers, sent, rt, settleLog, logoutPc, now, ticks>>
  /\ UNCHANGED ext

\* lines 147-153: the retried request was answered
RetryResponse(c, status) ==
  /\ mq = <<>>
  /\ pc[c] = "fetch2"
  /\ recv' = [recv EXCEPT ![c] = Append(@, [status |-> status, n |-> 2])]
  /\ result' = [result EXCEPT ![c] = [kind |-> "response", resp |-> recv'[c][2], err |-> NoErr]]
  /\ pc' = [pc EXCEPT ![c] = "done"]
  /\ UNCHANGED <<storage, location, navLog, isRefreshing, failedQueue, mq, args, headers, sent,
                 rt, attempts, hist, logoutPc, now, ticks>>
  /\ UNCHANGED ext

\* lines 147 and 154-158: the retried fetch rejected inside the inner try
RetryNetError(c) ==
  /\ mq = <<>>
  /\ pc[c] = "fetch2"
  /\ redirectToLogin("authFetch", 0)
  /\ result' = [result EXCEPT ![c] = [kind |-> "error", resp |-> NoResp, err |-> [msg |-> "Failed to fetch", att |-> 0]]]
  /\ pc' = [pc EXCEPT ![c] = "done"]
  /\ UNCHANGED <<isRefreshing, failedQueue, mq, args, headers, sent, recv, rt, attempts, hist,
                 logoutPc, now, ticks>>
  /\ UNCHANGED ext

\* --------------------------------------------------------------- auto refresh
\* lines 245-250: the timer callback resumes after `await refreshToken()`;
\* an error is logged and dropped
TickResume(p, res) ==
  /\ rt' = [rt EXCEPT ![p] = res]
  /\ pc' = [pc EXCEPT ![p] = "done"]
  /\ UNCHANGED <<storage, location, navLog, headers, sent, result>>

\* the callback refreshing also when the token expires in exactly bufferTime
NeedsRefresh_Inclusive(token, t) ==
  /\ ExpOf(token) >= 0
  /\ ExpOf(token) * 1000 - t <= BufferTime

\* lines 237-243: does the callback call refreshToken for this token at time t
NeedsRefresh(token, t) ==
  /\ ExpOf(token) >= 0
  /\ ExpOf(token) * 1000 - t < BufferTime

\* lines 231-251
Tick ==
  LET p == 0 - ticks IN
  /\ mq = <<>>
  /\ ticks < MaxTicks
  /\ ticks' = ticks + 1
  /\ now' = now + TickInterval
  /\ IF ~Falsy(getToken) /\ NeedsRefresh(getToken, now')
     THEN RefreshToken(p)
     ELSE /\ pc' = [pc EXCEPT ![p] = "done"]
          /\ UNCHANGED <<isRefreshing, failedQueue, attempts, enqLog>>
  /\ UNCHANGED <<storage, location, navLog, mq, args, headers, sent, recv, result, rt, settleLog, logoutPc>>
  /\ UNCHANGED ext

\* ------------------------------------------------------------------ microtasks
\* one promise reaction job
RunMicrotask ==
  /\ mq # <<>>
  /\ LET job == Head(mq) IN
     IF job.kind = "relay"
     THEN /\ mq' = Append(Tail(mq), [kind |-> "resume", p |-> job.p, res |-> job.res])
          /\ UNCHANGED <<storage, location, navLog, pc, headers, sent, result, rt>>
     ELSE /\ mq' = Tail(mq)
          /\ IF job.p \in Callers THEN AuthFetchResume(job.p, job.res) ELSE TickResume(job.p, job.res)
  /\ UNCHANGED <<isRefreshing, failedQueue, args, recv, attempts, hist, logoutPc, now, ticks>>
  /\ UNCHANGED ext

\* --------------------------------------------------------------------- logout
\* lines 1330-1336
LogoutCall ==
  /\ mq = <<>>
  /\ logoutPc = "idle"
  /\ logoutPc' = "fetch"
  /\ UNCHANGED <<storage, location, navLog, isRefreshing, failedQueue, pc, mq, args, headers,
                 sent, recv, result, rt, attempts, hist, now, ticks>>
  /\ UNCHANGED ext

\* logout without catch and finally: a rejected POST /logout rejects logout
LogoutSettle_NoFinally(outcome) ==
  /\ mq = <<>>
  /\ logoutPc = "fetch"
  /\ IF outcome = 0
     THEN /\ logoutPc' = "rejected"
          /\ UNCHANGED <<storage, location, navLog>>
     ELSE /\ logoutPc' = "done"
          /\ clearAuthData
          /\ location' = IndexPage
          /\ navLog' = navLog (+) SetToBag({[to |-> IndexPage, by |-> "logout", att |-> 0]})
  /\ UNCHANGED <<isRefreshing, failedQueue, pc, mq, args, headers, sent, recv, result, rt,
                 attempts, hist, now, ticks>>
  /\ UNCHANGED ext

\* lines 1337-1343: POST /logout answered with any status (outcome) or
\* rejected (outcome 0); the response is not looked at
LogoutSettle(outcome) ==
  /\ mq = <<>>
  /\ logoutPc = "fetch"
  /\ logoutPc' = "done"
  /\ clearAuthData
  /\ location' = IndexPage
  /\ navLog' = navLog (+) SetToBag({[to |-> IndexPage, by |-> "logout", att |-> 0]})
  /\ UNCHANGED <<isRefreshing, failedQueue, pc, mq, args, headers, sent, recv, result, rt,
                 attempts, hist, now, ticks>>
  /\ UNCHANGED ext

\* ---------------------------------------------------------------------- system
\* the page after login: the token sits in one scope or in none
InitStorage ==
  /\ \E t \in InitTokens \cup {Null}, scope \in {"local", "session"} :
        /\ localTok = IF scope = "local" THEN t ELSE Null
        /\ sessionTok = IF scope = "session" THEN t ELSE Null
  /\ role = "admin"

\* the coordinator idle, nothing called yet
InitRest ==
  /\ location = AdminPage
  /\ isRefreshing = FALSE
  /\ failedQueue = <<>>
  /\ pc = [p \in Procs |-> "idle"]
  /\ mq = <<>>
  /\ args = [c \in Callers |-> NoArgs]
  /\ headers = [c \in Callers |-> [n \in {} |-> <<>>]]
  /\ sent = [c \in Callers |-> <<>>]
  /\ recv = [c \in Callers |-> <<>>]
  /\ result = [c \in Callers |-> Pending]
  /\ rt = [p \in Procs |-> NoRt]
  /\ attempts = <<>>
  /\ enqLog = <<>>
  /\ settleLog = <<>>
  /\ navLog = EmptyBag
  /\ logoutPc = "idle"
  /\ now = 0
  /\ ticks = 0

NoApiBody == [json |-> FALSE, message |-> "unread", data |-> Null]
NoApiOut  == [kind |-> "none", msg |-> <<>>, data |-> Null]
NoApi     == [pc |-> "off", status |-> 0, body |-> NoApiBody, out |-> NoApiOut]
NoProbe == [op |-> "none", arg |-> Null, ret |-> Null, l |-> Null, s |-> Null]
NoChk   == [pc |-> "idle", ret |-> "none"]

Init ==
  /\ InitStorage
  /\ InitRest
  /\ api = [c \in Callers |-> NoApi]
  /\ probe = NoProbe
  /\ chk = NoChk

Next ==
  \/ \E c \in Callers, a \in CallArgs : AuthFetchCall(c, a)
  \/ \E c \in Callers, status \in Statuses : FirstResponse(c, status)
  \/ \E c \in Callers : FirstNetError(c)
  \/ \E p \in Procs, status \in Statuses : RefreshResponse(p, status)
  \/ \E p \in Procs : RefreshNetError(p)
  \/ \E p \in Procs, data \in RefreshBodies : RefreshBody(p, data)
  \/ \E c \in Callers, status \in Statuses : RetryResponse(c, status)
  \/ \E c \in Callers : RetryNetError(c)
  \/ Tick
  \/ RunMicrotask
  \/ LogoutCall
  \/ \E outcome \in Statuses \cup {0} : LogoutSettle(outcome)

Spec == Init /\ [][Next]_vars

\* ------------------------------------------------ every network call settles
\* the response or failure of a request of authFetch call c
CallerNetwork(c) ==
  \/ \E status \in Statuses : FirstResponse(c, status)
  \/ FirstNetError(c)
  \/ \E status \in Statuses : RetryResponse(c, status)
  \/ RetryNetError(c)

\* the response, failure or body of the refresh request of process p
RefreshNetwork(p) ==
  \/ \E status \in Statuses : RefreshResponse(p, status)
  \/ RefreshNetError(p)
  \/ \E data \in RefreshBodies : RefreshBody(p, data)

\* every request sent is eventually answered or fails, and the event loop
\* runs every queued promise reaction job; application calls, timer callbacks
\* and logout are not obliged to happen
Fairness ==
  /\ \A c \in Callers : WF_vars(CallerNetwork(c))
  /\ \A p \in Procs : WF_vars(RefreshNetwork(p))
  /\ WF_vars(\E outcome \in Statuses \cup {0} : LogoutSettle(outcome))
  /\ WF_vars(RunMicrotask)

SpecLive == Spec /\ Fairness

\* -------------------------------------------------------------------- apiRequest
\* Bodies an endpoint can send: not JSON (response.json() rejects), JSON with
\* no message, with an empty message, with a message
ApiBodies ==
  { [json |-> FALSE, message |-> Null, data |-> Null],
    [json |-> TRUE, message |-> Null, data |-> "rows"],
    [json |-> TRUE, message |-> "", data |-> "rows"],
    [json |-> TRUE, message |-> "Bad request", data |-> "rows"] }

\* lines 174-175: errorData.message || `HTTP ${response.status}`, where a body
\* that does not parse is replaced by { message: 'Unknown error' }
ApiErrorMessage(status, body) ==
  IF ~body.json THEN <<"Unknown error">>
  ELSE IF Falsy(body.message) THEN <<"HTTP", status>> ELSE <<body.message>>

ApiError(msg) == [kind |-> "error", msg |-> msg, data |-> Null]

\* apiRequest without the test of response.ok
ApiOutcome_IgnoreStatus(status, body) ==
  IF body.json THEN [kind |-> "value", msg |-> <<>>, data |-> body.data]
  ELSE ApiError(<<"Unexpected token in JSON">>)

\* lines 173-178: what apiRequest settles with once the body has been read
ApiOutcome(status, body) ==
  IF ~IsOk(status) THEN ApiError(ApiErrorMessage(status, body))
  ELSE IF body.json THEN [kind |-> "value", msg |-> <<>>, data |-> body.data]
  ELSE ApiError(<<"Unexpected token in JSON">>)

\* apiRequest passing authFetch's undefined on to its caller
ApiOnUndefined_Returned == [kind |-> "value", msg |-> <<>>, data |-> Null]

\* line 173: `response.ok` with response undefined throws a TypeError, which
\* the catch rethrows (lines 179-182)
ApiOnUndefined == ApiError(<<"TypeError">>)

\* lines 169-171: apiRequest calls authFetch with its own arguments
ApiRequestStart(c, a) ==
  /\ AuthFetchStart(c, a)
  /\ api' = [api EXCEPT ![c] = [NoApi EXCEPT !.pc = "await"]]

\* apiRequest called by application code
ApiRequestCall(c, a) ==
  /\ ApiRequestStart(c, a)
  /\ UNCHANGED <<probe, chk>>

ApiFrame ==
  UNCHANGED <<storage, location, isRefreshing, failedQueue, pc, mq, args, headers, sent, recv,
              result, rt, attempts, enqLog, settleLog, navLog, logoutPc, now, ticks, probe, chk>>

\* lines 171-175 and 179-182: authFetch has settled. Its error is rethrown;
\* its undefined makes `response.ok` throw a TypeError; its response is read
\* with response.json(). The continuation touches nothing but the response.
ApiResume(c) ==
  /\ api[c].pc = "await"
  /\ pc[c] = "done"
  /\ api' = [api EXCEPT ![c] =
       IF result[c].kind = "error"
       THEN [@ EXCEPT !.pc = "done", !.out = ApiError(<<result[c].err.msg>>)]
       ELSE IF result[c].kind = "undefined"
       THEN [@ EXCEPT !.pc = "done", !.out = ApiOnUndefined]
       ELSE [@ EXCEPT !.pc = "json", !.status = result[c].resp.status]]
  /\ ApiFrame

\* lines 174-178: response.json() has settled
ApiBody(c, body) ==
  /\ api[c].pc = "json"
  /\ api' = [api EXCEPT ![c] = [@ EXCEPT !.pc = "done", !.body = body,
                                          !.out = ApiOutcome(api[c].status, body)]]
  /\ ApiFrame

\* application code calling only through apiRequest, no timer and no logout
NextApi ==
  \/ \E c \in Callers, a \in CallArgs : ApiRequestCall(c, a)
  \/ \E c \in Callers, status \in Statuses : FirstResponse(c, status)
  \/ \E c \in Callers : FirstNetError(c)
  \/ \E c \in Callers, status \in Statuses : RetryResponse(c, status)
  \/ \E c \in Callers : RetryNetError(c)
  \/ \E p \in Procs, status \in Statuses : RefreshResponse(p, status)
  \/ \E p \in Procs : RefreshNetError(p)
  \/ \E p \in Procs, data \in RefreshBodies : RefreshBody(p, data)
  \/ RunMicrotask
  \/ \E c \in Callers : ApiResume(c)
  \/ \E c \in Callers, body \in ApiBodies : ApiBody(c, body)

SpecApi == Init /\ [][NextApi]_vars

\* ------------------------------------------------------------ checkAuthentication
\* apiRequest('/profile/role'): no options
RoleArgs == [url |-> "/profile/role", options |-> [method |-> Null, headers |-> NoHeaders]]

\* the JSON value null as a response body (reading its .role throws)
NullBody == "JSON null"

\* Bodies of the answer to /profile/role; data stands for data.role (Null: the
\* object has no role)
RoleBodies ==
  { [json |-> FALSE, message |-> Null, data |-> Null],
    [json |-> TRUE, message |-> Null, data |-> "admin"],
    [json |-> TRUE, message |-> Null, data |-> "user"],
    [json |-> TRUE, message |-> "Forbidden", data |-> Null],
    [json |-> TRUE, message |-> Null, data |-> NullBody] }

\* localStorage.setItem('role', role) stores the string form of role
RoleItem(r) == IF r = Null THEN "undefined" ELSE r

\* checkAuthentication letting every role in
RoleAllowed_Any(r) == TRUE

\* line 210: role !== 'admin' sends the user away
RoleAllowed(r) == r = "admin"

\* lines 187-205: no token, or a token whose payload cannot be decoded (the
\* throw lands in the catch): redirect to login and return false; else call
\* apiRequest('/profile/role'). It is the first call made on the page.
CheckCall ==
  /\ chk.pc = "idle"
  /\ mq = <<>>
  /\ \A c \in Callers : pc[c] = "idle"
  /\ IF Falsy(getToken) \/ ExpOf(getToken) < 0
     THEN /\ redirectToLogin("checkAuthentication", 0)
          /\ chk' = [pc |-> "done", ret |-> "false"]
          /\ UNCHANGED <<isRefreshing, failedQueue, pc, mq, args, headers, sent, recv, result,
                         rt, attempts, hist, logoutPc, now, ticks, api>>
     ELSE /\ ApiRequestStart(1, RoleArgs)
          /\ chk' = [pc |-> "await", ret |-> "none"]
  /\ UNCHANGED probe

\* lines 205-225: apiRequest has settled. A rejection, or a body whose .role
\* cannot be read, lands in the catch; else the role is stored and decides.
CheckResume ==
  /\ chk.pc = "await"
  /\ api[1].pc = "done"
  /\ IF api[1].out.kind = "error" \/ api[1].out.data = NullBody
     THEN /\ redirectToLogin("checkAuthentication", 0)
          /\ chk' = [pc |-> "done", ret |-> "false"]
     ELSE /\ role' = RoleItem(api[1].out.data)
          /\ UNCHANGED <<localTok, sessionTok>>
          /\ IF RoleAllowed(api[1].out.data)
             THEN /\ chk' = [pc |-> "done", ret |-> "true"]
                  /\ UNCHANGED <<location, navLog>>
             ELSE /\ chk' = [pc |-> "done", ret |-> "false"]
                  /\ location' = DashboardPage
                  /\ navLog' = navLog (+) SetToBag({[to |-> DashboardPage,
                                                      by |-> "checkAuthentication", att |-> 0]})
  /\ UNCHANGED <<isRefreshing, failedQueue, pc, mq, args, headers, sent, recv, result,
                 rt, attempts, hist, logoutPc, now, ticks, api, probe>>

\* the page before checkAuthentication: any token item, well-formed or not,
\* in one scope or none, and a role cached by an earlier visit or none
InitCheck ==
  /\ \E t \in InitTokens \cup {Null, "opaque"}, scope \in {"local", "session"} :
        /\ localTok = IF scope = "local" THEN t ELSE Null
        /\ sessionTok = IF scope = "session" THEN t ELSE Null
  /\ role \in {Null, "admin", "user"}
  /\ InitRest
  /\ api = [c \in Callers |-> NoApi]
  /\ probe = NoProbe
  /\ chk = NoChk

\* page load: only checkAuthentication and what it calls runs
NextCheck ==
  \/ CheckCall
  \/ \E c \in Callers, status \in Statuses : FirstResponse(c, status)
  \/ \E c \in Callers : FirstNetError(c)
  \/ \E c \in Callers, status \in Statuses : RetryResponse(c, status)
  \/ \E c \in Callers : RetryNetError(c)
  \/ \E p \in Procs, status \in Statuses : RefreshResponse(p, status)
  \/ \E p \in Procs : RefreshNetError(p)
  \/ \E p \in Procs, data \in RefreshBodies : RefreshBody(p, data)
  \/ RunMicrotask
  \/ \E c \in Callers : ApiResume(c)
  \/ \E c \in Callers, body \in RoleBodies : ApiBody(c, body)
  \/ CheckResume

SpecCheck == InitCheck /\ [][NextCheck]_vars

\* ---------------------------------------------------- the token store by itself
\* what an item of either storage scope can hold: nothing, an empty string, a token
StoreValues == {Null, ""} \cup InitTokens \cup RefreshTokens

\* every other variable stays as Init leaves it
StoreFrame ==
  UNCHANGED <<location, isRefreshing, failedQueue, pc, mq, args, headers, sent, recv, result,
              rt, attempts, enqLog, settleLog, navLog, logoutPc, now, ticks, api, chk>>

\* lines 21-23, called directly
GetTokenCall ==
  /\ probe' = [op |-> "getToken", arg |-> Null, ret |-> getToken, l |-> localTok, s |-> sessionTok]
  /\ UNCHANGED storage
  /\ StoreFrame

\* lines 26-33, called directly with a token of the refresh endpoint
SetTokenCall(token) ==
  /\ localTok' = SetTokenResult(localTok, sessionTok, token)[1]
  /\ sessionTok' = SetTokenResult(localTok, sessionTok, token)[2]
  /\ probe' = [op |-> "setToken", arg |-> token, ret |-> Null, l |-> localTok, s |-> sessionTok]
  /\ UNCHANGED role
  /\ StoreFrame

\* lines 36-41, called directly
ClearAuthDataCall ==
  /\ clearAuthData
  /\ probe' = [op |-> "clearAuthData", arg |-> Null, ret |-> Null, l |-> localTok, s |-> sessionTok]
  /\ StoreFrame

InitStore ==
  /\ localTok \in StoreValues
  /\ sessionTok \in StoreValues
  /\ role \in {Null, "admin"}
  /\ InitRest
  /\ api = [c \in Callers |-> NoApi]
  /\ probe = NoProbe
  /\ chk = NoChk

NextStore ==
  \/ GetTokenCall
  \/ \E token \in InitTokens \cup RefreshTokens : SetTokenCall(token)
  \/ ClearAuthDataCall

SpecStore == InitStore /\ [][NextStore]_vars

\* ===================================================================== claims
\* positions in enqLog of the waiters of attempt a / of the waits of process p
Waiters(a)    == {i \in 1..Len(enqLog) : enqLog[i].att = a}
EnqueuedAt(p) == {i \in 1..Len(enqLog) : enqLog[i].p = p}
\* the refresh network call a has been answered and handled
Done(a)       == attempts[a].phase = "done"
\* a refresh network call finishes in this step
Settles(a) == a \in 1..Len(attempts) /\ ~Done(a) /\ attempts'[a].phase = "done"

\* C1: in every reachable state at most one POST /auth/refresh is in flight,
\* and while one is in flight isRefreshing is set (the test of the flag and its
\* setting are one uninterrupted step of RefreshToken).
C1_AtMostOneRefreshInFlight ==
  /\ Cardinality(RefreshInFlight) <= 1
  /\ Cardinality({a \in 1..Len(attempts) : ~Done(a)}) <= 1
  /\ RefreshInFlight # {} => isRefreshing

\* C1 witness: one refresh is in flight while an authFetch caller and a timer
\* callback both wait on it.
C1_Witness ==
  /\ Cardinality(RefreshInFlight) = 1
  /\ \E i, j \in 1..Len(failedQueue) : failedQueue[i].p \in Callers /\ failedQueue[j].p \in TickProcs

\* a step in which a process becomes a queued waiter
C2_EnqueueStep ==
  \A p \in Procs :
    (pc[p] # "waiting" /\ pc'[p] = "waiting") =>
      /\ attempts' = attempts
      /\ RefreshInFlight' = RefreshInFlight
      /\ RefreshInFlight # {}
      /\ failedQueue' = Append(failedQueue, [p |-> p, att |-> AttOf(CHOOSE q \in RefreshInFlight : TRUE)])

\* what a waiter was handed is the outcome of the attempt it waited on
C2_SameOutcome ==
  \A i \in 1..Len(enqLog) :
    LET w == enqLog[i].p
        a == enqLog[i].att
    IN /\ a \in 1..Len(attempts)
       /\ rt[w].kind # "none" =>
            /\ Done(a)
            /\ rt[w] = attempts[a].res
            /\ rt[attempts[a].by].kind # "none" => rt[w] = rt[attempts[a].by]

\* C2: a caller that invokes refreshToken while a refresh is in flight starts
\* no network call, is appended to the waiter queue, and is settled with
\* exactly the outcome of that refresh: the value or error the initiator gets.
C2_WaitersShareOutcome == [][C2_EnqueueStep]_vars /\ []C2_SameOutcome

\* C2 witness: a queued authFetch caller and the initiator have both been
\* handed the same new token.
C2_Witness ==
  \E i \in 1..Len(enqLog) :
    /\ enqLog[i].p \in Callers
    /\ rt[enqLog[i].p].kind = "token"
    /\ rt[attempts[enqLog[i].att].by] = rt[enqLog[i].p]

\* a step in which a refresh attempt settles empties the queue
C3_DrainStep == \A a \in 1..Len(attempts) : Settles(a) => failedQueue' = <<>>

\* the settle history against the enqueue history
C3_SettledOnce ==
  /\ \A j \in 1..Len(settleLog) : settleLog[j].by = settleLog[j].att
  /\ \A j, k \in 1..Len(settleLog) :
        (settleLog[j].p = settleLog[k].p /\ settleLog[j].att = settleLog[k].att) => j = k
  /\ \A i \in 1..Len(enqLog) :
        Done(enqLog[i].att) =>
          \E j \in 1..Len(settleLog) : settleLog[j].p = enqLog[i].p /\ settleLog[j].att = enqLog[i].att
  /\ \A i \in 1..Len(failedQueue) : ~Done(failedQueue[i].att)

\* C3: when a refresh attempt settles the waiter queue is emptied, every
\* waiter enqueued during the attempt is settled exactly once, and by that
\* attempt, never by a later one.
C3_QueueDrainedOnce == [][C3_DrainStep]_vars /\ []C3_SettledOnce

\* C3 witness: an attempt with a waiter has settled, and a later attempt,
\* started after it, has settled as well.
C3_Witness ==
  /\ Len(attempts) = 2
  /\ Done(1) /\ Done(2)
  /\ Cardinality(Waiters(1)) = 1
  /\ Len(settleLog) = 1
  /\ failedQueue = <<>>

\* a step that handles the answer to a refresh call
C4_SettleStep ==
  \A p \in Procs :
    (pc[p] \in {"rfetch", "rjson"} /\ pc'[p] \notin {"rfetch", "rjson"}) => ~isRefreshing'

\* C4: whenever the in-flight refresh call settles, whatever the outcome,
\* isRefreshing is false afterwards, so that a later refreshToken call starts
\* a new network call instead of queueing.
C4_IdleAfterSettle == [][C4_SettleStep]_vars /\ [](RefreshInFlight = {} => ~isRefreshing)

\* C4 witness: after a failed attempt a second refresh network call is running.
C4_Witness ==
  /\ Len(attempts) = 2
  /\ attempts[1].res.kind = "error"
  /\ attempts[2].phase = "fetch"

\* refreshToken invocations made by one authFetch call
RtCalls(c) ==
  Cardinality({a \in 1..Len(attempts) : attempts[a].by = c})
    + Cardinality({i \in 1..Len(enqLog) : enqLog[i].p = c})

\* the refresh attempts a process took part in, as initiator or as waiter
JoinedAtts(p) ==
  {a \in 1..Len(attempts) : attempts[a].by = p} \cup {enqLog[i].att : i \in EnqueuedAt(p)}

\* C5: one authFetch call sends at most two requests to its endpoint and calls
\* refreshToken at most once; once the retried request is answered (also with
\* a 401) authFetch is finished and returns that second response.
C5_RetryOnce ==
  \A c \in Callers :
    /\ Len(sent[c]) <= 2
    /\ RtCalls(c) <= 1
    /\ Len(recv[c]) <= Len(sent[c])
    /\ Len(recv[c]) = 2 =>
         /\ pc[c] = "done"
         /\ result[c] = [kind |-> "response", resp |-> recv[c][2], err |-> NoErr]

\* C5 witness: first response 401, refresh succeeded, retry answered 401 and
\* returned.
C5_Witness ==
  \E c \in Callers :
    /\ pc[c] = "done"
    /\ Len(recv[c]) = 2
    /\ recv[c][1].status = 401
    /\ rt[c].kind = "token"
    /\ result[c].resp = [status |-> 401, n |-> 2]

\* C6: when the first response is 401 and the refresh this caller initiated or
\* waited on yields a token, the request is sent again to the same URL with
\* the same options and headers except Authorization: Bearer <that token>, and
\* a response authFetch returns is the response to that retry.
C6_RetryWithNewToken ==
  \A c \in Callers : \A a \in JoinedAtts(c) :
    (Done(a) /\ attempts[a].res.kind = "token" /\ pc[c] \in {"fetch2", "done"}) =>
      /\ recv[c][1].status = 401
      /\ Len(sent[c]) = 2
      /\ sent[c][2].url = args[c].url
      /\ sent[c][2].url = sent[c][1].url
      /\ sent[c][2].options = sent[c][1].options
      /\ sent[c][2].credentials = sent[c][1].credentials
      /\ sent[c][2].headers =
           [sent[c][1].headers EXCEPT !["Authorization"] = Bearer(attempts[a].res.val)]
      /\ result[c].kind = "response" => (Len(recv[c]) = 2 /\ result[c].resp = recv[c][2])

\* C6 witness: a queued waiter that passed an Authorization header of its own
\* has been answered on the retry made with token T2.
C6_Witness ==
  \E c \in Callers :
    /\ \E i \in 1..Len(enqLog) : enqLog[i].p = c
    /\ "Authorization" \in DOMAIN args[c].options.headers
    /\ rt[c].val = "T2"
    /\ pc[c] = "done"
    /\ result[c].kind = "response"
    /\ result[c].resp.n = 2

\* a step that handles a 401 from the refresh endpoint
C7_Step ==
  \A a \in 1..Len(attempts) :
    (Settles(a) /\ attempts'[a].status = 401) =>
      /\ attempts'[a].res.kind = "error"
      /\ attempts'[a].res.err.msg = "REFRESH_TOKEN_EXPIRED"
      /\ localTok' = Null
      /\ sessionTok' = Null
      /\ role' = Null
      /\ location' = LoginPage

\* C7: when the refresh endpoint answers 401 the error is
\* REFRESH_TOKEN_EXPIRED and, right after the handler has run, both token
\* scopes and the cached role are empty and the page location is login.html.
C7_ExpiredClearsAndRedirects == [][C7_Step]_vars

\* C7 witness: the refresh endpoint has just answered 401.
C7_Witness ==
  \E a \in 1..Len(attempts) :
    /\ Done(a)
    /\ attempts[a].status = 401
    /\ mq # <<>>
    /\ getToken = Null
    /\ role = Null
    /\ location = LoginPage

\* navigations to the login page made because of refresh attempt a
LoginNavs(a) ==
  CopiesIn([to |-> LoginPage, by |-> "refreshToken", att |-> a], navLog)
    + CopiesIn([to |-> LoginPage, by |-> "authFetch", att |-> a], navLog)

\* every process that called refreshToken for attempt a has been resumed
AllResumed(a) ==
  /\ Done(a)
  /\ rt[attempts[a].by].kind # "none"
  /\ \A i \in Waiters(a) : rt[enqLog[i].p].kind # "none"

\* C8 (as stated): when the refresh endpoint answers 401 to a refresh started
\* by one authFetch caller with other authFetch callers queued, redirectToLogin
\* runs exactly once in total.
C8_RedirectOnce ==
  \A a \in 1..Len(attempts) :
    ( /\ AllResumed(a)
      /\ attempts[a].status = 401
      /\ attempts[a].by \in Callers
      /\ \E i \in Waiters(a) : enqLog[i].p \in Callers ) => LoginNavs(a) = 1

\* the refresh endpoint answered attempt a with a non-401 non-2xx status, or
\* the network call failed
GenericFailure(a) ==
  /\ Done(a)
  /\ attempts[a].res.kind = "error"
  /\ attempts[a].status # 401
  /\ ~IsOk(attempts[a].status)

\* C9 (as stated): after a generic refresh failure has propagated to every
\* caller of the refresh, no navigation to the login page has been made for
\* it and the stored token and cached role are what they were.
C9_GenericFailureLeavesAuth ==
  \A a \in 1..Len(attempts) :
    (GenericFailure(a) /\ AllResumed(a)) =>
      /\ LoginNavs(a) = 0
      /\ (Len(attempts) = 1 /\ logoutPc = "idle") =>
            (getToken = "T1" /\ role = "admin" /\ location = AdminPage)

\* a step that handles a 2xx refresh response without access_token
C10_Step ==
  \A a \in 1..Len(attempts) :
    ( /\ Settles(a)
      /\ IsOk(attempts'[a].status)
      /\ attempts'[a].body.json
      /\ attempts'[a].body.access_token \in {Null, ""} ) =>
      LET res == attempts'[a].res IN
      /\ res.kind = "error"
      /\ res.err = [msg |-> "No access token in response", att |-> a]
      /\ UNCHANGED <<localTok, sessionTok, role, location, navLog>>
      /\ ~isRefreshing'
      /\ failedQueue' = <<>>
      /\ settleLog' = settleLog \o
            [i \in 1..Len(failedQueue) |->
               [p |-> failedQueue[i].p, att |-> failedQueue[i].att, by |-> a, res |-> res]]
      /\ Len(mq') = Len(failedQueue) + 1
      /\ \A i \in 1..Len(failedQueue) : mq'[i].p = failedQueue[i].p /\ mq'[i].res = res
      /\ mq'[Len(mq')] = [kind |-> "resume", p |-> attempts[a].by, res |-> res]

\* C10: a 2xx refresh response without access_token is handled like a generic
\* failure: the token store, role and location are untouched, every queued
\* waiter is rejected with the 'No access token in response' error, the
\* initiator is rejected with the same error, and isRefreshing is cleared.
C10_MissingTokenIsFailure == [][C10_Step]_vars

\* C10 witness: a 2xx refresh response with an empty access_token has just
\* been handled with a waiter queued; the token T1 is still stored.
C10_Witness ==
  \E a \in 1..Len(attempts) :
    /\ Done(a)
    /\ attempts[a].status = 200
    /\ attempts[a].body = [json |-> TRUE, access_token |-> ""]
    /\ Waiters(a) # {}
    /\ Len(mq) = Cardinality(Waiters(a)) + 1
    /\ getToken = "T1"
    /\ location = AdminPage
    /\ ~isRefreshing

\* the error an authFetch call rejects with for a refresh failure res
RefreshRejection(res) == [kind |-> "error", resp |-> NoResp, err |-> res.err]

\* C11: when a refresh network call has failed, every waiter queued on it has
\* been rejected with the very error the initiator gets, and every authFetch
\* call that took part in it (as initiator or as waiter) has sent only its
\* first request and, once resumed, has rejected with that error.
C11_FailurePropagates ==
  \A a \in 1..Len(attempts) :
    (Done(a) /\ attempts[a].res.kind = "error") =>
      /\ \A i \in Waiters(a) :
           \E j \in 1..Len(settleLog) :
             settleLog[j] = [p |-> enqLog[i].p, att |-> a, by |-> a, res |-> attempts[a].res]
      /\ \A j \in 1..Len(settleLog) : settleLog[j].att = a => settleLog[j].res = attempts[a].res
      /\ \A c \in Callers :
           a \in JoinedAtts(c) =>
             /\ Len(sent[c]) = 1
             /\ rt[c] \in {NoRt, attempts[a].res}
             /\ IF rt[c] = NoRt
                THEN pc[c] = (IF attempts[a].by = c THEN "settled" ELSE "waiting") /\ result[c] = Pending
                ELSE pc[c] = "done" /\ result[c] = RefreshRejection(attempts[a].res)

\* C11 witness: a refresh started by one authFetch call failed with a server
\* error while the other authFetch call waited on it, and both have rejected.
C11_Witness ==
  \E a \in 1..Len(attempts) :
    /\ Done(a)
    /\ attempts[a].status = 500
    /\ attempts[a].by \in Callers
    /\ \E i \in Waiters(a) :
         /\ enqLog[i].p \in Callers
         /\ result[enqLog[i].p] = RefreshRejection(attempts[a].res)
    /\ result[attempts[a].by] = RefreshRejection(attempts[a].res)

\* C12: getToken returns the localStorage token when localStorage holds one and
\* else the sessionStorage item, so it yields no token only when neither scope
\* holds one; setToken stores its argument in localStorage exactly when
\* localStorage holds a token at the call and else in sessionStorage, and
\* leaves the other scope as it was.
C12_TokenStoreFallback ==
  /\ probe.op = "getToken" =>
        /\ ~Falsy(probe.l) => probe.ret = probe.l
        /\ Falsy(probe.l) => probe.ret = probe.s
        /\ Falsy(probe.ret) <=> (Falsy(probe.l) /\ Falsy(probe.s))
  /\ probe.op = "setToken" =>
        /\ ~Falsy(probe.l) => (localTok = probe.arg /\ sessionTok = probe.s)
        /\ Falsy(probe.l) => (sessionTok = probe.arg /\ localTok = probe.l)

\* C12 witness: with a token only in sessionStorage, setToken has written the
\* new token back to sessionStorage.
C12_Witness ==
  /\ probe.op = "setToken"
  /\ Falsy(probe.l)
  /\ probe.s \in InitTokens
  /\ probe.arg \in RefreshTokens
  /\ sessionTok = probe.arg
  /\ getToken = probe.arg

\* C13: localStorage and sessionStorage never both hold a token, whatever
\* authFetch calls, refreshes, redirects, timer callbacks and logout have run.
C13_OneScopeAtMost == Falsy(localTok) \/ Falsy(sessionTok)

\* C13 witness: a refresh has stored its token after logout had cleared both
\* scopes, and only sessionStorage holds it.
C13_Witness ==
  /\ logoutPc = "done"
  /\ \E a \in 1..Len(attempts) :
       /\ Done(a)
       /\ attempts[a].res.kind = "token"
       /\ sessionTok = attempts[a].res.val
  /\ localTok = Null

\* C14 (as stated): a refresh that succeeds stores its token in the scope that
\* held the token when its network call was started, whatever ran meanwhile.
C14_ScopePreserved ==
  [][\A a \in 1..Len(attempts) :
       (Settles(a) /\ attempts'[a].res.kind = "token") =>
         /\ attempts[a].scope = "local" => localTok' = attempts'[a].res.val
         /\ attempts[a].scope = "session" => sessionTok' = attempts'[a].res.val]_vars

\* C15: an authFetch call made while neither scope holds a token sends no
\* request to its endpoint and starts no refresh, clears the auth data, sets
\* the location to the login page and completes with undefined (no error);
\* no request is sent for it later either.
C15_NoTokenNoRequest ==
  [][\A c \in Callers :
       /\ (pc[c] = "idle" /\ pc'[c] # "idle" /\ Falsy(getToken)) =>
            /\ pc'[c] = "done"
            /\ result'[c] = [kind |-> "undefined", resp |-> NoResp, err |-> NoErr]
            /\ sent'[c] = <<>> /\ recv'[c] = <<>>
            /\ UNCHANGED <<attempts, enqLog, isRefreshing, failedQueue, mq>>
            /\ localTok' = Null /\ sessionTok' = Null /\ role' = Null
            /\ location' = LoginPage
       /\ result[c].kind = "undefined" =>
            (result'[c] = result[c] /\ sent'[c] = <<>> /\ JoinedAtts(c)' = {})]_vars

\* C15 witness: an authFetch call found no token and completed with undefined
\* on the login page, without having sent anything.
C15_Witness ==
  \E c \in Callers :
    /\ result[c].kind = "undefined"
    /\ args[c] \in CallArgs
    /\ sent[c] = <<>>
    /\ location = LoginPage
    /\ role = Null

\* C16 (as stated): the first request of an authFetch call carries
\* Authorization: Bearer <the token getToken returned>, also when the caller
\* passes an Authorization header of its own; every other header the caller
\* passes is sent with the caller's value.
C16_FirstRequestBearer ==
  [][\A c \in Callers :
       (sent[c] = <<>> /\ sent'[c] # <<>>) =>
         LET h == sent'[c][1].headers
             own == args'[c].options.headers
         IN /\ h["Authorization"] = Bearer(getToken)
            /\ \A n \in (DOMAIN own) \ {"Authorization"} : h[n] = <<own[n]>>]_vars

\* C17: when the first response of an authFetch call has a status other than
\* 401, the call returns that response as it is, calls no refreshToken, sends
\* no second request, and the step leaves the token store, isRefreshing, the
\* waiter queue and the location as they were.
C17_Non401PassedThrough ==
  [][\A c \in Callers :
       /\ (pc[c] = "fetch1" /\ Len(recv'[c]) = 1 /\ recv'[c][1].status # 401) =>
            /\ pc'[c] = "done"
            /\ result'[c] = [kind |-> "response", resp |-> recv'[c][1], err |-> NoErr]
            /\ UNCHANGED <<storage, location, navLog, isRefreshing, failedQueue,
                           attempts, enqLog, sent, mq>>
       /\ (result[c].kind = "response" /\ result[c].resp.n = 1) =>
            /\ result[c].resp = recv[c][1]
            /\ result'[c] = result[c]
            /\ Len(sent'[c]) = 1
            /\ JoinedAtts(c)' = {}]_vars

\* C17 witness: a first response with status 500 has been returned by its
\* authFetch call, which sent one request and joined no refresh.
C17_Witness ==
  \E c \in Callers :
    /\ result[c] = [kind |-> "response", resp |-> [status |-> 500, n |-> 1], err |-> NoErr]
    /\ Len(sent[c]) = 1
    /\ JoinedAtts(c) = {}
    /\ getToken \in InitTokens

\* apiRequest call c has settled on a final response of its authFetch call
ApiFinal(c) == api[c].pc = "done" /\ result[c].kind = "response"

\* a step of apiRequest after its authFetch call has settled
ApiStep(c) == api[c].pc \in {"await", "json"} /\ api'[c] # api[c]

ApiSettled(c) ==
  /\ ApiFinal(c) =>
       /\ api[c].status = result[c].resp.status
       /\ api[c].out.kind = "value" <=> (IsOk(api[c].status) /\ api[c].body.json)
       /\ api[c].out.kind = "value" => api[c].out.data = api[c].body.data
       /\ api[c].out.kind # "value" =>
            /\ api[c].out.kind = "error"
            /\ api[c].out.msg =
                 IF IsOk(api[c].status) THEN <<"Unexpected token in JSON">>
                 ELSE IF ~api[c].body.json THEN <<"Unknown error">>
                 ELSE IF api[c].body.message \in {Null, ""} THEN <<"HTTP", api[c].status>>
                 ELSE <<api[c].body.message>>
  /\ (api[c].pc = "done" /\ result[c].kind = "error") =>
       api[c].out = ApiError(<<result[c].err.msg>>)
  /\ (api[c].pc = "done" /\ result[c].kind = "undefined") => api[c].out.kind = "error"

C19_LogoutAlwaysClears ==
  [][(logoutPc = "fetch" /\ logoutPc' # "fetch") =>
       /\ logoutPc' = "done"
       /\ localTok' = Null /\ sessionTok' = Null /\ role' = Null
       /\ location' = IndexPage
       /\ CopiesIn([to |-> IndexPage, by |-> "logout", att |-> 0], navLog') = 1]_vars

\* C19 witness: logout has completed while an authFetch call was still
\* waiting for its response; the stored token and the role are gone.
C19_Witness ==
  /\ logoutPc = "done"
  /\ location = IndexPage
  /\ getToken = Null /\ role = Null
  /\ \E c \in Callers : pc[c] = "fetch1" /\ sent[c][1].headers["Authorization"] = Bearer("T1")

\* the refresh call of process p is unsettled before and after this step
StaysInFlight(p) == pc[p] \in {"rfetch", "rjson"} /\ pc'[p] \in {"rfetch", "rjson"}

\* C20: for as long as the refresh call in flight has not settled, isRefreshing
\* stays true, no further refresh call is started, a process that calls
\* refreshToken is appended to the queue, and no queued waiter is settled or
\* resumed (an authFetch call among them stays pending).
C20_UnsettledRefreshHoldsAll ==
  [][\A p \in Procs :
       StaysInFlight(p) =>
         /\ isRefreshing /\ isRefreshing'
         /\ Len(attempts') = Len(attempts)
         /\ settleLog' = settleLog
         /\ Len(failedQueue') >= Len(failedQueue)
         /\ SubSeq(failedQueue', 1, Len(failedQueue)) = failedQueue
         /\ \A q \in Procs \ {p} :
              /\ pc'[q] \notin {"rfetch", "rjson", "settled"}
              /\ (pc[q] # "waiting" /\ pc'[q] = "waiting") =>
                   failedQueue' = Append(failedQueue, [p |-> q, att |-> AttOf(p)])
              /\ pc[q] = "waiting" =>
                   /\ pc'[q] = "waiting"
                   /\ rt'[q] = NoRt
                   /\ q \in Callers => (result'[q] = Pending /\ Len(sent'[q]) = 1)
                   /\ \E i \in 1..Len(failedQueue) : failedQueue[i].p = q]_vars

\* C20 witness: the refresh started by a timer callback has been answered but
\* its body is not read yet, and both authFetch calls are queued behind it.
C20_Witness ==
  \E p \in TickProcs :
    /\ pc[p] = "rjson"
    /\ isRefreshing
    /\ Len(failedQueue) = NumCallers
    /\ \A c \in Callers : pc[c] = "waiting" /\ result[c] = Pending

\* the refresh network calls started by authFetch calls whose first request
\* carried the token t
StartedFor(t) ==
  {a \in 1..Len(attempts) :
     /\ attempts[a].by \in Callers
     /\ sent[attempts[a].by][1].headers["Authorization"] = Bearer(t)}

\* C21 (as stated): the authFetch calls whose first requests carried the same
\* expired token cause one refresh network call in total, also when one of
\* the 401 responses arrives after the refresh caused by another has finished.
C21_OneRefreshPerBurst ==
  \A t \in InitTokens :
    (\E a \in StartedFor(t) : attempts[a].res.kind = "token") => Cardinality(StartedFor(t)) = 1

\* process p continues after its await of refreshToken in this step
Resumes(p) == rt[p] = NoRt /\ rt'[p] # NoRt

\* C22: when a waiter or the initiator of a successful refresh continues after
\* its await, the token store already holds the new token and isRefreshing is
\* already false (setToken, then processQueue, then finally, all before any
\* continuation runs).
C22_StoredBeforeResume ==
  [][\A p \in Procs :
       (Resumes(p) /\ rt'[p].kind = "token") =>
         /\ getToken = rt'[p].val
         /\ ~isRefreshing
         /\ failedQueue = <<>>
         /\ \E a \in JoinedAtts(p) : Done(a) /\ attempts[a].res = rt'[p]]_vars

\* C22 witness: a queued authFetch call has been resumed with the new token
\* and has sent its retry while the store holds that token.
C22_Witness ==
  \E i \in 1..Len(enqLog) :
    LET p == enqLog[i].p
    IN /\ p \in Callers
       /\ pc[p] = "fetch2"
       /\ rt[p].kind = "token"
       /\ getToken = rt[p].val
       /\ ~isRefreshing

\* positions in settleLog at which the waiter enqueued at enqLog[i] was settled
SettledAt(i) ==
  {k \in 1..Len(settleLog) : settleLog[k].p = enqLog[i].p /\ settleLog[k].att = enqLog[i].att}

\* C23: of two waiters of one refresh attempt, the one enqueued first is
\* resolved or rejected first by processQueue, and its awaiting caller
\* continues first.
C23_WaitersFifo ==
  \A i, j \in 1..Len(enqLog) :
    (i < j /\ enqLog[i].att = enqLog[j].att) =>
      /\ \A kj \in SettledAt(j) : \E ki \in SettledAt(i) : ki < kj
      /\ rt[enqLog[j].p] # NoRt => rt[enqLog[i].p] # NoRt

\* C23 witness: two waiters of one attempt have been settled, of which only
\* the one enqueued first has continued so far.
C23_Witness ==
  \E i, j \in 1..Len(enqLog) :
    /\ i < j
    /\ enqLog[i].att = enqLog[j].att
    /\ SettledAt(i) # {} /\ SettledAt(j) # {}
    /\ rt[enqLog[i].p] # NoRt
    /\ rt[enqLog[j].p] = NoRt

\* clearAuthData has run and neither scope holds a token
ClearedStore == navLog # EmptyBag /\ Falsy(localTok) /\ Falsy(sessionTok)

\* C24 (as stated): once clearAuthData has run, through logout or through
\* redirectToLogin, no later step stores a token in either scope, not even a
\* refresh that was in flight at the clear and then succeeds.
C24_NoTokenAfterClear ==
  [][ClearedStore => (Falsy(localTok') /\ Falsy(sessionTok'))]_vars

\* C25: in every reachable state a non-empty failedQueue implies isRefreshing
\* (an idle coordinator has an empty queue), and isRefreshing is true exactly
\* while a refresh call started by refreshToken has not finished its
\* settlement handling.
C25_QueueOnlyWhileRefreshing ==
  /\ failedQueue # <<>> => isRefreshing
  /\ isRefreshing <=> (\E a \in 1..Len(attempts) : ~Done(a))
  /\ isRefreshing <=> RefreshInFlight # {}
  /\ \A i \in 1..Len(failedQueue) : ~Done(failedQueue[i].att)

\* C25 witness: after a first refresh has been handled completely, a second
\* one is in flight with a waiter in the queue.
C25_Witness ==
  /\ Len(attempts) = 2
  /\ Done(1) /\ ~Done(2)
  /\ isRefreshing
  /\ failedQueue # <<>>
  /\ \A i \in 1..Len(failedQueue) : failedQueue[i].att = 2

\* no authFetch call made is still running and no process queued in the
\* coordinator is still unsettled or suspended
AllSettled ==
  /\ \A c \in Callers : pc[c] \in {"idle", "done"} /\ (pc[c] = "done" => result[c] # Pending)
  /\ \A p \in Procs : pc[p] # "waiting" /\ (EnqueuedAt(p) # {} => rt[p] # NoRt)
  /\ failedQueue = <<>>

\* C26: if every network call eventually settles, every authFetch call that
\* was made eventually completes (with a response, with undefined or with a
\* rejection) and every process queued in the coordinator is eventually
\* resolved or rejected and continues: whatever calls are made, a state with
\* nothing left running or queued is reached again and again (a completed
\* call stays completed).
C26_EveryCallCompletes == []<>AllSettled

\* C26 witness: every authFetch call has completed, one of them after having
\* been queued behind the refresh of the other, and the queue is empty.
C26_Witness ==
  /\ \A c \in Callers : pc[c] = "done" /\ result[c] # Pending
  /\ \E c \in Callers : EnqueuedAt(c) # {} /\ rt[c] # NoRt
  /\ failedQueue = <<>>
  /\ ~isRefreshing

\* the timer callback that runs in this step, if one does
TickRuns(p) == p = 0 - ticks /\ ticks' = ticks + 1

\* C27: a timer callback calls refreshToken exactly when a token is stored
\* whose exp claim lies less than 300000 ms after the current time, and does
\* nothing without a token; its call goes through the coordinator, so with a
\* refresh in flight it is queued and starts no second call; when its await
\* ends, with a token or with any error, it only finishes: the steps of this
\* path leave the token store and the location as they are on a generic
\* refresh failure.
C27_AutoRefreshTick ==
  [][\A p \in TickProcs :
       /\ TickRuns(p) =>
            /\ pc'[p] \in {"rfetch", "waiting"} <=>
                 ( /\ getToken \notin {Null, ""}
                   /\ ExpOf(getToken) >= 0
                   /\ ExpOf(getToken) * 1000 - now' < 300000 )
            /\ pc'[p] \notin {"rfetch", "waiting"} =>
                 (pc'[p] = "done" /\ UNCHANGED <<attempts, failedQueue, isRefreshing>>)
            /\ (pc'[p] \in {"rfetch", "waiting"} /\ isRefreshing) =>
                 /\ pc'[p] = "waiting"
                 /\ attempts' = attempts
                 /\ failedQueue' = Append(failedQueue, [p |-> p, att |-> Len(attempts)])
            /\ UNCHANGED <<storage, location, navLog>>
       /\ Resumes(p) =>
            /\ pc'[p] = "done"
            /\ UNCHANGED <<storage, location, navLog, attempts, failedQueue, isRefreshing>>
       /\ \A a \in 1..Len(attempts) :
            (Settles(a) /\ attempts[a].by = p /\ GenericFailure(a)') =>
              UNCHANGED <<storage, location, navLog>>]_vars

\* C27 witness: the refresh started by a timer callback failed with status
\* 500, the callback has finished, and the token and the location are those
\* of the start.
C27_Witness ==
  \E a \in 1..Len(attempts) :
    /\ attempts[a].by \in TickProcs
    /\ Done(a)
    /\ attempts[a].status = 500
    /\ pc[attempts[a].by] = "done"
    /\ rt[attempts[a].by].kind = "error"
    /\ getToken = "T1"
    /\ location = AdminPage

\* C28: an apiRequest call made while no token is stored returns no value:
\* its authFetch call redirects to the login page and yields undefined, and
\* apiRequest then rejects with an error, having read no body.
C28_NoTokenApiRejects ==
  \A c \in Callers :
    (api[c].pc # "off" /\ result[c].kind = "undefined") =>
      /\ sent[c] = <<>>
      /\ CopiesIn([to |-> LoginPage, by |-> "noToken", att |-> 0], navLog) >= 1
      /\ api[c].pc \in {"await", "done"}
      /\ api[c].pc = "done" =>
           /\ api[c].out.kind = "error"
           /\ api[c].out.data = Null
           /\ api[c].body = NoApiBody

\* C28 witness: an apiRequest call made after a failed refresh had cleared the
\* token has rejected without sending anything.
C28_Witness ==
  \E c \in Callers :
    /\ api[c].pc = "done"
    /\ result[c].kind = "undefined"
    /\ api[c].out.kind = "error"
    /\ sent[c] = <<>>
    /\ \E a \in 1..Len(attempts) : Done(a) /\ attempts[a].res.kind = "error"

\* the /profile/role request of checkAuthentication finally succeeded and a
\* role (possibly none) could be read from its body
RoleRead ==
  /\ api[1].pc = "done"
  /\ api[1].out.kind = "value"
  /\ api[1].out.data # NullBody
  /\ result[1].kind = "response" /\ IsOk(result[1].resp.status)

\* C29: checkAuthentication returns true only when a token is stored, the
\* /profile/role request finally succeeded and the role read is 'admin', and
\* then no navigation was made; in every other case it returns false after a
\* navigation: to the user dashboard when a role other than 'admin' was read,
\* and to the login page with token and role cleared when the token is absent
\* or undecodable or the role request failed in any way.
C29_CheckAuthentication ==
  chk.pc = "done" =>
    /\ chk.ret \in {"true", "false"}
    /\ chk.ret = "true" <=> (RoleRead /\ api[1].out.data = "admin")
    /\ chk.ret = "true" =>
         /\ getToken \notin {Null, ""}
         /\ role = "admin"
         /\ location = AdminPage /\ navLog = EmptyBag
    /\ chk.ret = "false" =>
         /\ location \in {DashboardPage, LoginPage}
         /\ location = DashboardPage <=> (RoleRead /\ api[1].out.data # "admin")
         /\ location = LoginPage =>
              (localTok = Null /\ sessionTok = Null /\ role = Null)
         /\ (api[1].pc = "off" \/ api[1].out.kind = "error") => location = LoginPage

\* C29 witness: checkAuthentication returned true after its role request got
\* 401, the token was refreshed and the retried request succeeded.
C29_Witness ==
  /\ chk = [pc |-> "done", ret |-> "true"]
  /\ Len(sent[1]) = 2
  /\ getToken \in RefreshTokens
  /\ role = "admin"

====
